---- MODULE Spec2Model ----
(***************************************************************************)
(* A model of build_js.py, the script that configures and builds OpenCV.js *)
(* with Emscripten: directory validation, the clean step, the assembly of  *)
(* the cmake command, the execution of external commands and the linear    *)
(* sequence of optional steps of the main program.                         *)
(*                                                                         *)
(* Representation.  A path as written by the user or the script is the     *)
(* sequence of its "/"-separated components, so "bin/" is <<"bin", "">>    *)
(* and "/emsdk" is <<"", "emsdk">>.  An absolute, normalised path is the   *)
(* sequence of its non-empty components.  A string that the script builds  *)
(* by formatting or concatenation is the sequence of the pieces that were  *)
(* concatenated.  Python's None is the empty sequence.                     *)
(***************************************************************************)
EXTENDS Integers, Sequences, FiniteSets, TLC

VARIABLES
    args,       \* the parsed command line (argparse namespace)
    fs,         \* the filesystem: absolute path -> kind of the entry
    fs0,        \* the filesystem when the run started
    cwd,        \* the working directory of the process
    builder,    \* the Builder's build_dir, opencv_dir, emscripten_dir
    pc,         \* the position of the main program
    steps,      \* the steps announced and executed so far, in order
    children,   \* the external processes launched so far, with their outcome
    raised,     \* the exception that ended the run, if any
    exitcode,   \* the exit status of the process once it has ended
    printed,    \* the artifact locations reported
    call,       \* the input of a single call of a function under study
    result      \* what that call returned or raised

vars == <<args, fs, fs0, cwd, builder, pc, steps, children, raised, exitcode,
          printed, call, result>>

----------------------------------------------------------------------------
(* Bounds of the model. *)

\* exit statuses 0 .. MaxExit of a child that exits by itself
MaxExit == 40
\* signals 1 .. MaxSignal that may kill a child
MaxSignal == 31
\* errno values 1 .. MaxErrno of a failed launch
MaxErrno == 13
\* how many times the cmake command is assembled in a row
MaxAssemble == 2

----------------------------------------------------------------------------
(* Paths and the filesystem. *)

None == <<>>

Kind == {"absent", "file", "dir", "special"}

\* where the script is started
StartDir == <<"work">>

BuildDirPath == <<"work", "out">>
OpencvDirPath == <<"src", "opencv">>
EmscriptenDirPath == <<"emsdk">>

\* the ways the user may write the three directories
BuildDirForms == {<<"out">>, <<"out", "">>, <<"", "work", "out">>}
OpencvDirForms == {<<"", "src", "opencv">>, <<"", "src", "opencv", "">>}
EmscriptenDirForms == {<<"", "emsdk">>, <<"", "emsdk", "">>}

\* the entries rm_one is asked to remove by clean_build_dir
CleanList ==
    << <<"CMakeCache.txt">>, <<"CMakeFiles", "">>, <<"bin", "">>,
       <<"libs", "">>, <<"lib", "">>, <<"modules">> >>

CleanNames == {"CMakeCache.txt", "CMakeFiles", "bin", "libs", "lib", "modules"}
OtherNames == {"Makefile", "doc"}

OpencvjsPath == BuildDirPath \o <<"bin", "opencv.js">>
TestsPath == BuildDirPath \o <<"bin", "tests.html">>
DocPath == BuildDirPath \o <<"doc">>
DoxygenPath == BuildDirPath \o <<"doc", "doxygen">>
HtmlPath == BuildDirPath \o <<"doc", "doxygen", "html">>
TutorialPath == HtmlPath \o <<"tutorial_js_root.html">>

TopPaths == {BuildDirPath \o <<n>> : n \in CleanNames \cup OtherNames}

ContentPaths ==
    TopPaths \cup {OpencvjsPath, TestsPath, DoxygenPath, HtmlPath, TutorialPath}

FsPaths == {BuildDirPath, OpencvDirPath, EmscriptenDirPath} \cup ContentPaths

Parent(p) == SubSeq(p, 1, Len(p) - 1)

IsPrefix(p, q) == Len(p) <= Len(q) /\ SubSeq(q, 1, Len(p)) = p

Stat(f, p) == IF p \in DOMAIN f THEN f[p] ELSE "absent"

exists(f, p) == Stat(f, p) # "absent"
isdir(f, p) == Stat(f, p) = "dir"
isfile(f, p) == Stat(f, p) = "file"

abspath(c, d) ==
    LET parts == SelectSeq(d, LAMBDA x : x # "")
    IN  IF d[1] = "" THEN parts ELSE c \o parts

join(a, rest) == a \o rest

rmtree(f, p) == [q \in DOMAIN f |-> IF IsPrefix(p, q) THEN "absent" ELSE f[q]]

remove(f, p) == [q \in DOMAIN f |-> IF q = p THEN "absent" ELSE f[q]]

makedirs(f, p) ==
    [q \in DOMAIN f |-> IF IsPrefix(q, p) /\ f[q] = "absent" THEN "dir" ELSE f[q]]

\* every entry lies in a directory
WellFormed(f) ==
    \A p \in ContentPaths : f[p] # "absent" => f[Parent(p)] = "dir"

----------------------------------------------------------------------------
(* Exceptions. *)

Fail(text, n, detail) ==
    [type |-> "Fail", text |-> text, n |-> n, detail |-> detail]

TypeError == [type |-> "TypeError", text |-> "expected str, bytes or os.PathLike object, not NoneType", n |-> 0, detail |-> ""]

strerror(errno) ==
    CASE errno = 2 -> "No such file or directory"
      [] errno = 8 -> "Exec format error"
      [] errno = 13 -> "Permission denied"
      [] OTHER -> "Unknown error"

----------------------------------------------------------------------------
(* execute: the outcome of the child is what subprocess.call returns, or    *)
(* the OSError it raises when the child cannot be launched.                 *)

Returned(retcode) == [oserror |-> FALSE, n |-> retcode]
LaunchFailed(errno) == [oserror |-> TRUE, n |-> errno]

Outcomes ==
    {Returned(n) : n \in (0 - MaxSignal) .. MaxExit}
        \cup {LaunchFailed(e) : e \in 1 .. MaxErrno}

execute_signal_not_negated(outcome) ==
    IF outcome.oserror
    THEN <<Fail("Execution failed: %d / %s", outcome.n, strerror(outcome.n))>>
    ELSE IF outcome.n < 0
         THEN <<Fail("Child was terminated by signal: %s", outcome.n, "")>>
         ELSE IF outcome.n > 0
              THEN <<Fail("Child returned: %s", outcome.n, "")>>
              ELSE <<>>

execute_swallow_signal(outcome) ==
    IF outcome.oserror
    THEN <<Fail("Execution failed: %d / %s", outcome.n, strerror(outcome.n))>>
    ELSE IF outcome.n > 0
         THEN <<Fail("Child returned: %s", outcome.n, "")>>
         ELSE <<>>

execute(outcome) ==
    IF outcome.oserror
    THEN <<Fail("Execution failed: %d / %s", outcome.n, strerror(outcome.n))>>
    ELSE IF outcome.n < 0
         THEN <<Fail("Child was terminated by signal: %s", 0 - outcome.n, "")>>
         ELSE IF outcome.n > 0
              THEN <<Fail("Child returned: %s", outcome.n, "")>>
              ELSE <<>>

----------------------------------------------------------------------------
(* rm_one, check_dir, check_file, find_file. *)

rm_one_files_only(f, c, d) ==
    LET p == abspath(c, d)
    IN  IF isfile(f, p) THEN remove(f, p) ELSE f

rm_one(f, c, d) ==
    LET p == abspath(c, d)
    IN  IF exists(f, p)
        THEN IF isdir(f, p)
             THEN rmtree(f, p)
             ELSE IF isfile(f, p) THEN remove(f, p) ELSE f
        ELSE f

\* glob.glob(os.path.join(d, "*")): the entries directly in d
glob_star(f, p) == {q \in DOMAIN f : Len(q) = Len(p) + 1 /\ IsPrefix(p, q) /\ exists(f, q)}

RECURSIVE rm_each(_, _)
rm_each(f, ps) ==
    IF ps = {} THEN f
    ELSE LET q == CHOOSE x \in ps : TRUE
         IN  rm_each(rm_one(f, <<>>, <<"">> \o q), ps \ {q})

check_dir(f, c, d, create, clean) ==
    LET p == abspath(c, d)
    IN  IF exists(f, p)
        THEN IF ~isdir(f, p)
             THEN [fs |-> f, raised |-> <<Fail("Not a directory: %s", 0, "")>>, ret |-> None]
             ELSE [fs |-> IF clean THEN rm_each(f, glob_star(f, p)) ELSE f,
                   raised |-> <<>>, ret |-> p]
        ELSE [fs |-> IF create THEN makedirs(f, p) ELSE f,
              raised |-> <<>>, ret |-> p]

\* check_file(d): os.path.abspath(None) raises TypeError
check_file(f, c, d) ==
    IF d = None
    THEN [raised |-> <<TypeError>>, ret |-> FALSE]
    ELSE LET p == abspath(c, d)
         IN  [raised |-> <<>>, ret |-> exists(f, p) /\ isfile(f, p)]

\* os.walk(path) visits path and the directories below it; "files" are the
\* entries of a visited directory that are not directories
walk(f, path) ==
    {r \in DOMAIN f : IsPrefix(path, r)
                      /\ \A k \in Len(path) .. Len(r) : isdir(f, SubSeq(r, 1, k))}

find_file(f, name, path) ==
    LET hits == {r \in walk(f, path) :
                    exists(f, r \o <<name>>) /\ ~isdir(f, r \o <<name>>)}
    IN  IF hits = {} THEN None
        ELSE <<"">> \o ((CHOOSE r \in hits : TRUE) \o <<name>>)

----------------------------------------------------------------------------
(* Builder: the clean step and the assembly of the commands. *)

RECURSIVE rm_list(_, _, _, _)
rm_list(f, c, list, i) ==
    IF i > Len(list) THEN f ELSE rm_list(rm_one(f, c, list[i]), c, list, i + 1)

clean_build_dir(f, c) == rm_list(f, c, CleanList, 1)

get_toolchain_file(b) ==
    join(b.emscripten_dir, <<"cmake", "Modules", "Platform", "Emscripten.cmake">>)

get_build_flags_asm_first(options) ==
    <<"-s USE_PTHREADS=0 ">>
        \o (IF options.disable_wasm THEN <<"-s WASM=0 ">>
            ELSE IF options.build_wasm THEN <<"-s WASM=1 ">> ELSE <<>>)
        \o (IF options.enable_exception
            THEN <<"-s DISABLE_EXCEPTION_CATCHING=0 ">> ELSE <<>>)

get_build_flags_both(options) ==
    <<"-s USE_PTHREADS=0 ">>
        \o (IF options.build_wasm THEN <<"-s WASM=1 ">> ELSE <<>>)
        \o (IF options.disable_wasm THEN <<"-s WASM=0 ">> ELSE <<>>)
        \o (IF options.enable_exception
            THEN <<"-s DISABLE_EXCEPTION_CATCHING=0 ">> ELSE <<>>)

get_build_flags(options) ==
    <<"-s USE_PTHREADS=0 ">>
        \o (IF options.build_wasm THEN <<"-s WASM=1 ">>
            ELSE IF options.disable_wasm THEN <<"-s WASM=0 ">> ELSE <<>>)
        \o (IF options.enable_exception
            THEN <<"-s DISABLE_EXCEPTION_CATCHING=0 ">> ELSE <<>>)

\* the fixed options that follow the toolchain file
BaselineOptions ==
    << "-DCPU_BASELINE=''", "-DCPU_DISPATCH=''", "-DCV_TRACE=OFF",
       "-DBUILD_SHARED_LIBS=OFF", "-DWITH_1394=OFF", "-DWITH_ADE=OFF",
       "-DWITH_VTK=OFF", "-DWITH_EIGEN=OFF", "-DWITH_FFMPEG=OFF",
       "-DWITH_GSTREAMER=OFF", "-DWITH_GTK=OFF", "-DWITH_GTK_2_X=OFF",
       "-DWITH_IPP=OFF", "-DWITH_JASPER=OFF", "-DWITH_JPEG=OFF",
       "-DWITH_WEBP=OFF", "-DWITH_OPENEXR=OFF", "-DWITH_OPENGL=OFF",
       "-DWITH_OPENVX=OFF", "-DWITH_OPENNI=OFF", "-DWITH_OPENNI2=OFF",
       "-DWITH_PNG=OFF", "-DWITH_TBB=OFF", "-DWITH_PTHREADS_PF=OFF",
       "-DWITH_TIFF=OFF", "-DWITH_V4L=OFF", "-DWITH_OPENCL=OFF",
       "-DWITH_OPENCL_SVM=OFF", "-DWITH_OPENCLAMDFFT=OFF",
       "-DWITH_OPENCLAMDBLAS=OFF", "-DWITH_GPHOTO2=OFF", "-DWITH_LAPACK=OFF",
       "-DWITH_ITT=OFF", "-DWITH_QUIRC=OFF", "-DBUILD_ZLIB=ON",
       "-DBUILD_opencv_apps=OFF", "-DBUILD_opencv_calib3d=ON",
       "-DBUILD_opencv_dnn=ON", "-DBUILD_opencv_features2d=ON",
       "-DBUILD_opencv_flann=ON", "-DBUILD_opencv_gapi=OFF",
       "-DBUILD_opencv_ml=OFF", "-DBUILD_opencv_photo=ON",
       "-DBUILD_opencv_imgcodecs=OFF", "-DBUILD_opencv_shape=OFF",
       "-DBUILD_opencv_videoio=OFF", "-DBUILD_opencv_videostab=OFF",
       "-DBUILD_opencv_highgui=OFF", "-DBUILD_opencv_superres=OFF",
       "-DBUILD_opencv_stitching=OFF", "-DBUILD_opencv_java=OFF",
       "-DBUILD_opencv_java_bindings_generator=OFF", "-DBUILD_opencv_js=ON",
       "-DBUILD_opencv_python2=OFF", "-DBUILD_opencv_python3=OFF",
       "-DBUILD_opencv_python_bindings_generator=OFF", "-DBUILD_EXAMPLES=OFF",
       "-DBUILD_PACKAGE=OFF", "-DBUILD_TESTS=OFF", "-DBUILD_PERF_TESTS=OFF" >>

get_cmake_cmd(b, options) ==
    LET flags == get_build_flags(options)
    IN  << <<"cmake">>, <<"-DCMAKE_BUILD_TYPE=Release">>,
           <<"-DCMAKE_TOOLCHAIN_FILE='">> \o get_toolchain_file(b) \o <<"'">> >>
        \o [i \in 1 .. Len(BaselineOptions) |-> <<BaselineOptions[i]>>]
        \o (IF options.build_doc
            THEN << <<"-DBUILD_DOCS=ON">> >> ELSE << <<"-DBUILD_DOCS=OFF">> >>)
        \o (IF flags # <<>>
            THEN << <<"-DCMAKE_C_FLAGS='">> \o flags \o <<"'">>,
                    <<"-DCMAKE_CXX_FLAGS='">> \o flags \o <<"'">> >>
            ELSE <<>>)

config_cmd(b, options) == Append(get_cmake_cmd(b, options), b.opencv_dir)

\* multiprocessing.cpu_count() on the machine of the run
cpu_count == 4

str(n) == << <<"0", "1", "2", "3", "4", "5", "6", "7", "8", "9">>[n + 1] >>

make_cmd(target) == << <<"make">>, <<"-j">>, str(cpu_count), <<target>> >>

----------------------------------------------------------------------------
(* The external tools.  A child that was launched may write its output     *)
(* below the build directory, or may not, whatever its exit status.        *)

Writable(f, p) ==
    /\ f[p] \in {"absent", "file"}
    /\ \A q \in DOMAIN f :
          IsPrefix(q, p) /\ q # p => f[q] \in {"absent", "dir"}

Write(f, p) ==
    IF Writable(f, p) THEN [makedirs(f, Parent(p)) EXCEPT ![p] = "file"] ELSE f

ChildEffects(f, out) == {f, Write(f, out)}

\* the outcomes of a child the runs of the main program are explored with
StepOutcomes == {Returned(0), Returned(7), Returned(0 - 9), LaunchFailed(2)}

----------------------------------------------------------------------------
(* The main program. *)

Flags ==
    [build_wasm : BOOLEAN, disable_wasm : BOOLEAN, build_test : BOOLEAN,
     build_doc : BOOLEAN, clean_build_dir : BOOLEAN, skip_config : BOOLEAN,
     config_only : BOOLEAN, enable_exception : BOOLEAN]

\* argparse: --emscripten_dir defaults to the EMSCRIPTEN environment variable
parse_args(build_dir, opencv_dir, emscripten_opt, environ_EMSCRIPTEN, fl) ==
    [build_dir |-> build_dir,
     opencv_dir |-> opencv_dir,
     emscripten_dir |->
        IF emscripten_opt # None THEN emscripten_opt ELSE environ_EMSCRIPTEN,
     build_wasm |-> fl.build_wasm,
     disable_wasm |-> fl.disable_wasm,
     build_test |-> fl.build_test,
     build_doc |-> fl.build_doc,
     clean_build_dir |-> fl.clean_build_dir,
     skip_config |-> fl.skip_config,
     config_only |-> fl.config_only,
     enable_exception |-> fl.enable_exception]

NoBuilder == [build_dir |-> None, opencv_dir |-> None, emscripten_dir |-> None]

\* the content of a build directory, given by the kinds of its entries
Tree(top, js, tests, doxygen, html, tutorial) ==
    [p \in ContentPaths |->
        CASE p = OpencvjsPath -> js
          [] p = TestsPath -> tests
          [] p = DoxygenPath -> doxygen
          [] p = HtmlPath -> html
          [] p = TutorialPath -> tutorial
          [] OTHER -> top[p[Len(p)]]]

AllTop(k) == [n \in CleanNames \cup OtherNames |-> k]

EmptyTree == Tree(AllTop("absent"), "absent", "absent", "absent", "absent", "absent")

\* what an earlier build left
StaleTree ==
    Tree([n \in CleanNames \cup OtherNames |->
            IF n \in {"CMakeCache.txt", "Makefile"} THEN "file" ELSE "dir"],
         "file", "file", "dir", "dir", "file")

\* entries of unexpected kinds under the expected names
OddTree ==
    Tree([n \in CleanNames \cup OtherNames |->
            CASE n \in {"CMakeFiles", "Makefile"} -> "file"
              [] n = "modules" -> "special"
              [] n = "libs" -> "absent"
              [] OTHER -> "dir"],
         "dir", "special", "dir", "dir", "dir")

RunTrees == {EmptyTree, StaleTree, OddTree}

DirKinds == {"absent", "file", "dir"}

MkFs(kb, ko, ke, tree) ==
    [p \in FsPaths |->
        CASE p = BuildDirPath -> kb
          [] p = OpencvDirPath -> ko
          [] p = EmscriptenDirPath -> ke
          [] OTHER -> IF kb = "dir" THEN tree[p] ELSE "absent"]

Init ==
    /\ \E fl \in Flags, opt \in {None, <<"", "emsdk", "">>},
          env \in {None, <<"", "emsdk">>} :
          args = parse_args(<<"out", "">>, <<"", "src", "opencv">>, opt, env, fl)
    /\ \E kb \in DirKinds, ko \in DirKinds, ke \in DirKinds, tree \in RunTrees :
          fs = MkFs(kb, ko, ke, tree)
    /\ fs0 = fs
    /\ cwd = StartDir
    /\ builder = NoBuilder
    /\ pc = "start"
    /\ steps = <<>>
    /\ children = <<>>
    /\ raised = <<>>
    /\ exitcode = <<>>
    /\ printed = {}
    /\ call = <<>>
    /\ result = <<>>

\* sys.exit(n): the exit status is n modulo 256
sys_exit(n) == <<n % 256>>

\* an exception nobody catches: traceback, exit status 1
Uncaught(e) ==
    /\ raised' = e
    /\ pc' = "failed"
    /\ exitcode' = <<1>>

ResolveToolchain ==
    /\ pc = "start"
    /\ IF args.emscripten_dir = None
       THEN pc' = "exited" /\ exitcode' = sys_exit(0 - 1)
       ELSE pc' = "init" /\ exitcode' = exitcode
    /\ UNCHANGED <<args, fs, fs0, cwd, builder, steps, children, raised,
                   printed, call, result>>

BuilderInit ==
    /\ pc = "init"
    /\ LET b == check_dir(fs, cwd, args.build_dir, TRUE, FALSE)
           o == check_dir(b.fs, cwd, args.opencv_dir, FALSE, FALSE)
           e == check_dir(o.fs, cwd, args.emscripten_dir, FALSE, FALSE)
       IN  IF b.raised # <<>>
           THEN Uncaught(b.raised) /\ UNCHANGED <<fs, builder, cwd>>
           ELSE IF o.raised # <<>>
           THEN Uncaught(o.raised) /\ fs' = b.fs /\ UNCHANGED <<builder, cwd>>
           ELSE IF e.raised # <<>>
           THEN Uncaught(e.raised) /\ fs' = o.fs /\ UNCHANGED <<builder, cwd>>
           ELSE /\ fs' = e.fs
                /\ builder' = [build_dir |-> b.ret, opencv_dir |-> o.ret,
                               emscripten_dir |-> e.ret]
                /\ cwd' = b.ret
                /\ pc' = "clean"
                /\ UNCHANGED <<raised, exitcode>>
    /\ UNCHANGED <<args, fs0, steps, children, printed, call, result>>

do_clean(options) == options.clean_build_dir

do_config_always(options) == TRUE

do_config(options) == ~options.skip_config

stop_after_config_never(options) == FALSE

stop_after_config(options) == options.config_only

do_build_test(options) == options.build_test

do_build_doc(options) == options.build_doc

Clean ==
    /\ pc = "clean"
    /\ IF do_clean(args)
       THEN /\ fs' = clean_build_dir(fs, cwd)
            /\ steps' = Append(steps, "clean_build_dir")
       ELSE UNCHANGED <<fs, steps>>
    /\ pc' = "config"
    /\ UNCHANGED <<args, fs0, cwd, builder, children, raised, exitcode,
                   printed, call, result>>

\* a step that runs one external command through execute
Step(name, cmd, out, next) ==
    \E o \in StepOutcomes :
        \E f \in (IF o.oserror THEN {fs} ELSE ChildEffects(fs, out)) :
            /\ steps' = Append(steps, name)
            /\ children' = Append(children, [step |-> name, cmd |-> cmd, outcome |-> o])
            /\ fs' = f
            /\ IF execute(o) # <<>>
               THEN Uncaught(execute(o))
               ELSE /\ raised' = raised
                    /\ pc' = next
                    /\ exitcode' = IF next = "exited" THEN sys_exit(0) ELSE exitcode
            /\ UNCHANGED <<args, fs0, cwd, builder, printed, call, result>>

Config ==
    /\ pc = "config"
    /\ LET next == IF stop_after_config(args) THEN "exited" ELSE "build"
       IN  IF do_config(args)
           THEN Step("config", config_cmd(builder, args),
                     BuildDirPath \o <<"CMakeCache.txt">>, next)
           ELSE /\ pc' = next
                /\ exitcode' = IF next = "exited" THEN sys_exit(0) ELSE exitcode
                /\ UNCHANGED <<args, fs, fs0, cwd, builder, steps, children,
                               raised, printed, call, result>>

BuildOpencvjs ==
    /\ pc = "build"
    /\ Step("build_opencvjs", make_cmd("opencv.js"), OpencvjsPath, "test")

BuildTest ==
    /\ pc = "test"
    /\ IF do_build_test(args)
       THEN Step("build_test", make_cmd("opencv_js_test"), TestsPath, "doc")
       ELSE pc' = "doc" /\ UNCHANGED <<args, fs, fs0, cwd, builder, steps,
                                       children, raised, exitcode, printed,
                                       call, result>>

BuildDoc ==
    /\ pc = "doc"
    /\ IF do_build_doc(args)
       THEN Step("build_doc", make_cmd("doxygen"), TutorialPath, "report")
       ELSE pc' = "report" /\ UNCHANGED <<args, fs, fs0, cwd, builder, steps,
                                          children, raised, exitcode, printed,
                                          call, result>>

Report ==
    /\ pc = "report"
    /\ LET opencvjs_path == <<"">> \o join(builder.build_dir, <<"bin", "opencv.js">>)
           opencvjs_test_path == <<"">> \o join(builder.build_dir, <<"bin", "tests.html">>)
           opencvjs_tutorial_path ==
               find_file(fs, "tutorial_js_root.html",
                         join(builder.build_dir, <<"doc", "doxygen", "html">>))
           js == check_file(fs, cwd, opencvjs_path)
           tests == check_file(fs, cwd, opencvjs_test_path)
           tutorial == check_file(fs, cwd, opencvjs_tutorial_path)
           p1 == IF js.ret THEN {opencvjs_path} ELSE {}
           p2 == IF args.build_test /\ tests.ret THEN {opencvjs_test_path} ELSE {}
       IN  IF args.build_doc /\ tutorial.raised # <<>>
           THEN /\ Uncaught(tutorial.raised)
                /\ printed' = p1 \cup p2
           ELSE /\ printed' = p1 \cup p2 \cup
                       (IF args.build_doc /\ tutorial.ret
                        THEN {opencvjs_tutorial_path} ELSE {})
                /\ pc' = "done"
                /\ exitcode' = <<0>>
                /\ raised' = raised
    /\ steps' = Append(steps, "report")
    /\ UNCHANGED <<args, fs, fs0, cwd, builder, children, call, result>>

Next ==
    \/ ResolveToolchain
    \/ BuilderInit
    \/ Clean
    \/ Config
    \/ BuildOpencvjs
    \/ BuildTest
    \/ BuildDoc
    \/ Report

Spec == Init /\ [][Next]_vars

----------------------------------------------------------------------------
(* Single functions, called on inputs drawn from bounded sets. *)

NoRun ==
    /\ builder = NoBuilder
    /\ steps = <<>>
    /\ children = <<>>
    /\ raised = <<>>
    /\ exitcode = <<>>
    /\ printed = {}

(* execute *)

InitExecute ==
    /\ \E o \in Outcomes : call = [outcome |-> o]
    /\ args = <<>>
    /\ fs = MkFs("dir", "dir", "dir", EmptyTree)
    /\ fs0 = fs
    /\ cwd = BuildDirPath
    /\ pc = "call"
    /\ result = <<>>
    /\ NoRun

ExecuteCall ==
    /\ pc = "call"
    /\ result' = [raised |-> execute(call.outcome)]
    /\ pc' = "returned"
    /\ UNCHANGED <<args, fs, fs0, cwd, builder, steps, children, raised,
                   exitcode, printed, call>>

NextExecute == ExecuteCall

SpecExecute == InitExecute /\ [][NextExecute]_vars

(* check_dir *)

InitCheckDir ==
    /\ \E d \in BuildDirForms \cup OpencvDirForms \cup EmscriptenDirForms,
          create \in BOOLEAN, clean \in BOOLEAN :
          call = [d |-> d, create |-> create, clean |-> clean]
    /\ \E kb \in Kind, ko \in Kind, ke \in Kind, tree \in RunTrees :
          fs = MkFs(kb, ko, ke, tree)
    /\ args = <<>>
    /\ fs0 = fs
    /\ cwd = StartDir
    /\ pc = "call"
    /\ result = <<>>
    /\ NoRun

CheckDirCall ==
    /\ pc = "call"
    /\ LET r == check_dir(fs, cwd, call.d, call.create, call.clean)
       IN  /\ fs' = r.fs
           /\ result' = [raised |-> r.raised, ret |-> r.ret]
    /\ pc' = "returned"
    /\ UNCHANGED <<args, fs0, cwd, builder, steps, children, raised,
                   exitcode, printed, call>>

NextCheckDir == CheckDirCall

SpecCheckDir == InitCheckDir /\ [][NextCheckDir]_vars

(* clean_build_dir, run twice in the build directory *)

CleanTrees ==
    {Tree(top, js, tests, doc, doc, IF doc = "dir" THEN "file" ELSE "absent") :
        top \in {t \in [CleanNames \cup OtherNames -> Kind] :
                    /\ t["Makefile"] \in {"absent", "file"}
                    /\ t["doc"] \in {"absent", "dir"}},
        js \in {"absent", "file"}, tests \in {"absent", "file"},
        doc \in {"absent", "dir"}}

InitClean ==
    /\ \E tree \in CleanTrees :
          /\ fs = MkFs("dir", "dir", "dir", tree)
          /\ WellFormed(fs)
    /\ args = <<>>
    /\ fs0 = fs
    /\ cwd = BuildDirPath
    /\ pc = "clean"
    /\ call = <<>>
    /\ result = <<>>
    /\ NoRun

CleanOnce ==
    /\ pc = "clean"
    /\ fs' = clean_build_dir(fs, cwd)
    /\ result' = fs'
    /\ pc' = "cleaned"
    /\ UNCHANGED <<args, fs0, cwd, builder, steps, children, raised,
                   exitcode, printed, call>>

CleanAgain ==
    /\ pc = "cleaned"
    /\ fs' = clean_build_dir(fs, cwd)
    /\ pc' = "cleaned twice"
    /\ UNCHANGED <<args, fs0, cwd, builder, steps, children, raised,
                   exitcode, printed, call, result>>

NextClean == CleanOnce \/ CleanAgain

SpecClean == InitClean /\ [][NextClean]_vars

(* get_cmake_cmd, assembled MaxAssemble times for one Builder *)

InitCmd ==
    /\ \E fl \in Flags, em \in EmscriptenDirForms, bd \in BuildDirForms :
          args = parse_args(bd, <<"", "src", "opencv">>, em, None, fl)
    /\ fs = MkFs("dir", "dir", "dir", EmptyTree)
    /\ fs0 = fs
    /\ cwd = StartDir
    /\ builder = [build_dir |-> abspath(cwd, args.build_dir),
                  opencv_dir |-> abspath(cwd, args.opencv_dir),
                  emscripten_dir |-> abspath(cwd, args.emscripten_dir)]
    /\ pc = "assemble"
    /\ call = args
    /\ result = <<>>
    /\ steps = <<>>
    /\ children = <<>>
    /\ raised = <<>>
    /\ exitcode = <<>>
    /\ printed = {}

Assemble ==
    /\ pc = "assemble"
    /\ Len(result) < MaxAssemble
    /\ result' = Append(result, get_cmake_cmd(builder, args))
    /\ UNCHANGED <<args, fs, fs0, cwd, builder, pc, steps, children, raised,
                   exitcode, printed, call>>

NextCmd == Assemble

SpecCmd == InitCmd /\ [][NextCmd]_vars

----------------------------------------------------------------------------
(* The properties. *)

Last(seq) == seq[Len(seq)]

ReportMade == steps # <<>> /\ Last(steps) = "report"

BuildStepNames == {"build_opencvjs", "build_test", "build_doc"}

Occurrences(seq, x) == Cardinality({i \in DOMAIN seq : seq[i] = x})

HasPiece(token, piece) == \E i \in DOMAIN token : token[i] = piece

TokensWith(cmd, head) == {i \in DOMAIN cmd : cmd[i][1] = head}

\* the flag string inside -DCMAKE_C_FLAGS='...'
Inner(token) == SubSeq(token, 2, Len(token) - 1)

ExpectedSteps(o) ==
    (IF o.clean_build_dir THEN <<"clean_build_dir">> ELSE <<>>)
        \o (IF o.skip_config THEN <<>> ELSE <<"config">>)
        \o <<"build_opencvjs">>
        \o (IF o.build_test THEN <<"build_test">> ELSE <<>>)
        \o (IF o.build_doc THEN <<"build_doc">> ELSE <<>>)

StepsBeforeReport == SelectSeq(steps, LAMBDA x : x # "report")

\* C1: without --config_only, once every step of a run has succeeded, the
\* steps executed are exactly clean (iff --clean_build_dir), configure (iff
\* not --skip_config), build-main-artifact, build-tests (iff --build_test),
\* build-documentation (iff --build_doc), in that order, each at most once,
\* and one external command was launched for each step but clean.
C1_StepSequence ==
    (~args.config_only /\ (pc = "report" \/ ReportMade)) =>
        /\ StepsBeforeReport = ExpectedSteps(args)
        /\ \A x \in {"clean_build_dir", "config"} \cup BuildStepNames :
              Occurrences(steps, x) <= 1
        /\ [i \in DOMAIN children |-> children[i].step]
              = SelectSeq(ExpectedSteps(args), LAMBDA x : x # "clean_build_dir")
        /\ \A i \in DOMAIN children :
              /\ children[i].outcome = Returned(0)
              /\ children[i].cmd[1] =
                    IF children[i].step = "config" THEN <<"cmake">> ELSE <<"make">>
        /\ (args.build_wasm /\ args.build_test /\ ~args.build_doc
                /\ ~args.clean_build_dir /\ ~args.skip_config
              => StepsBeforeReport = <<"config", "build_opencvjs", "build_test">>)
        /\ (args.skip_config /\ args.clean_build_dir
                /\ ~args.build_test /\ ~args.build_doc
              => StepsBeforeReport = <<"clean_build_dir", "build_opencvjs">>)

C1_Witness ==
    /\ pc = "done"
    /\ args.build_wasm /\ args.build_test /\ ~args.build_doc
    /\ ~args.clean_build_dir /\ ~args.skip_config /\ ~args.config_only
    /\ steps = <<"config", "build_opencvjs", "build_test", "report">>
    /\ Len(children) = 3

\* C2: a child that exits non-zero, is killed by a signal or cannot be
\* launched is the last thing the run does: its step is the last one and
\* was run once, nothing is reported, and the run has ended with an
\* uncaught exception and a non-zero exit status.
C2_FailureAborts ==
    \A i \in DOMAIN children :
        children[i].outcome # Returned(0) =>
            /\ i = Len(children)
            /\ Last(steps) = children[i].step
            /\ Occurrences(steps, children[i].step) = 1
            /\ pc = "failed"
            /\ raised # <<>>
            /\ exitcode # <<>> /\ exitcode # <<0>>
            /\ printed = {}
            /\ ~ReportMade

C2_Witness ==
    /\ pc = "failed"
    /\ Len(children) = 2
    /\ children[2].step = "build_opencvjs"
    /\ children[2].outcome = Returned(0 - 9)
    /\ args.build_test /\ args.build_doc
    /\ steps = <<"config", "build_opencvjs">>

\* every directory is there and the toolchain directory is given
GoodEnvironment ==
    /\ args.emscripten_dir # None
    /\ fs0[BuildDirPath] \in {"absent", "dir"}
    /\ fs0[OpencvDirPath] = "dir"
    /\ fs0[EmscriptenDirPath] = "dir"

\* C3 as stated: with --config_only, whatever the other flags, the
\* configure step runs, no build step runs and the process exits with 0.
C3_ConfigOnlyAlwaysConfigures ==
    (args.config_only /\ GoodEnvironment /\ pc = "exited") =>
        /\ Occurrences(steps, "config") = 1
        /\ \A x \in BuildStepNames : Occurrences(steps, x) = 0
        /\ exitcode = <<0>>

\* C3 amended: with --config_only no build step ever runs and nothing is
\* reported; the configure step runs exactly when --skip_config is not set;
\* and once configure has succeeded or been skipped the process exits with 0.
C3_ConfigOnly ==
    args.config_only =>
        /\ \A x \in BuildStepNames : Occurrences(steps, x) = 0
        /\ \A i \in DOMAIN children : children[i].step = "config"
        /\ ~ReportMade /\ printed = {}
        /\ pc \notin {"build", "test", "doc", "report", "done"}
        /\ (pc = "exited" /\ args.emscripten_dir # None) =>
              /\ exitcode = <<0>>
              /\ Occurrences(steps, "config") = (IF args.skip_config THEN 0 ELSE 1)
              /\ \A i \in DOMAIN children : children[i].outcome = Returned(0)
        /\ (pc = "failed" /\ children # <<>>) =>
              /\ ~args.skip_config
              /\ Last(children).outcome # Returned(0)

C3_Witness ==
    /\ args.config_only /\ args.build_test /\ args.build_doc
    /\ ~args.skip_config /\ args.clean_build_dir
    /\ pc = "exited"
    /\ steps = <<"clean_build_dir", "config">>
    /\ exitcode = <<0>>

\* the directory a written path names
Canonical(d) ==
    CASE d \in BuildDirForms -> BuildDirPath
      [] d \in OpencvDirForms -> OpencvDirPath
      [] d \in EmscriptenDirForms -> EmscriptenDirPath

\* C4: check_dir fails for a missing path unless create is set, in which
\* case it creates the directory; it fails for a file; for an existing
\* directory it returns the absolute path and changes nothing.
C4_CheckDirValidates ==
    (pc = "returned" /\ ~call.clean) =>
        LET p == Canonical(call.d)
        IN  /\ (fs0[p] = "absent" /\ ~call.create) =>
                  /\ result.raised # <<>>
                  /\ fs = fs0
            /\ (fs0[p] = "absent" /\ call.create) =>
                  /\ result.raised = <<>>
                  /\ fs[p] = "dir"
            /\ fs0[p] = "file" => result.raised # <<>> /\ fs = fs0
            /\ fs0[p] = "dir" =>
                  /\ result.raised = <<>>
                  /\ result.ret = p
                  /\ fs = fs0

BadEnvironment ==
    \/ args.emscripten_dir = None
    \/ fs0[OpencvDirPath] \in {"absent", "file"}
    \/ fs0[EmscriptenDirPath] \in {"absent", "file"}

\* C5: when the source or toolchain directory is missing or is a file, or
\* the toolchain directory is not given at all, the run ends non-zero before
\* any external process is launched and before the clean step; nothing
\* below the output directory changes.
C5_BadEnvironmentStopsEarly ==
    BadEnvironment =>
        /\ children = <<>>
        /\ steps = <<>>
        /\ \A p \in ContentPaths : fs[p] = fs0[p]
        /\ pc \in {"start", "init", "exited", "failed"}
        /\ exitcode # <<0>>

\* C6: execute raises nothing exactly for exit status 0; a positive status
\* n gives "Child returned" with n; a negative status -s gives "Child was
\* terminated by signal" with s; a failed launch gives "Execution failed"
\* with the errno and its message.
C6_ExecuteMapsOutcome ==
    pc = "returned" =>
        LET o == call.outcome
            r == result.raised
        IN  /\ Len(r) <= 1
            /\ r = <<>> <=> (~o.oserror /\ o.n = 0)
            /\ (~o.oserror /\ o.n > 0) =>
                  r = <<Fail("Child returned: %s", o.n, "")>>
            /\ (~o.oserror /\ o.n < 0) =>
                  /\ r[1].type = "Fail"
                  /\ r[1].text = "Child was terminated by signal: %s"
                  /\ r[1].n > 0
                  /\ r[1].n + o.n = 0
            /\ o.oserror =>
                  /\ r[1].type = "Fail"
                  /\ r[1].text = "Execution failed: %d / %s"
                  /\ r[1].n = o.n
                  /\ r[1].detail = strerror(o.n)

C6_Witness ==
    /\ pc = "returned"
    /\ call.outcome = Returned(0 - 9)
    /\ result.raised # <<>>
    /\ result.raised[1].n = 9

\* C7: in a run with valid directories, once every requested step has
\* exited zero, the report never fails
\* the run: an artifact is listed exactly when it is there as a file, and
\* the run ends with exit status 0.
C7_ReportNeverFails ==
    (GoodEnvironment /\ ReportMade) =>
        /\ pc = "done"
        /\ exitcode = <<0>>
        /\ raised = <<>>
        /\ (<<"">> \o OpencvjsPath) \in printed <=> isfile(fs, OpencvjsPath)
        /\ (<<"">> \o TestsPath) \in printed
              <=> (args.build_test /\ isfile(fs, TestsPath))
        /\ (<<"">> \o TutorialPath) \in printed
              <=> (args.build_doc /\ isfile(fs, TutorialPath))

Listed(p) == p \in {BuildDirPath \o <<n>> : n \in CleanNames}

InListedDir(p) ==
    \E q \in FsPaths : Listed(q) /\ q # p /\ IsPrefix(q, p) /\ fs0[q] = "dir"

\* C8: the clean step removes the listed entries that are files or
\* directories (a directory with what it holds), leaves everything else as
\* it was, works when listed entries are absent, and changes nothing when
\* it is run again.
C8_CleanRemovesListed ==
    pc # "clean" =>
        /\ \A p \in FsPaths :
              fs[p] = IF (Listed(p) /\ fs0[p] \in {"file", "dir"}) \/ InListedDir(p)
                      THEN "absent" ELSE fs0[p]
        /\ raised = <<>>
        /\ fs = result

C8_Witness ==
    /\ pc = "cleaned twice"
    /\ fs0[BuildDirPath \o <<"CMakeFiles">>] = "file"
    /\ fs0[BuildDirPath \o <<"bin">>] = "dir"
    /\ fs0[OpencvjsPath] = "file"
    /\ fs0[BuildDirPath \o <<"libs">>] = "absent"
    /\ fs0[BuildDirPath \o <<"Makefile">>] = "file"
    /\ fs0[TutorialPath] = "file"
    /\ fs[BuildDirPath \o <<"CMakeFiles">>] = "absent"
    /\ fs[OpencvjsPath] = "absent"
    /\ fs[BuildDirPath \o <<"Makefile">>] = "file"
    /\ fs[TutorialPath] = "file"

\* C9 as stated: a command line with both --build_wasm and --disable_wasm
\* never reaches the configure step or a build step.
C9_BothFormatsRejected ==
    (GoodEnvironment /\ args.build_wasm /\ args.disable_wasm) =>
        /\ children = <<>>
        /\ pc \notin {"config", "build", "test", "doc", "report", "done"}

\* C9 amended: a command line with both --build_wasm and --disable_wasm is
\* accepted and --build_wasm wins: every configure command of such a run
\* asks for WASM=1 and never for WASM=0, and the run is never ended for the
\* flags (only for the directories or a failing step).
C9_BuildWasmWins ==
    (args.build_wasm /\ args.disable_wasm) =>
        /\ \A i \in DOMAIN children :
              children[i].step = "config" =>
                  \A t \in TokensWith(children[i].cmd, "-DCMAKE_C_FLAGS='")
                          \cup TokensWith(children[i].cmd, "-DCMAKE_CXX_FLAGS='") :
                      /\ HasPiece(children[i].cmd[t], "-s WASM=1 ")
                      /\ ~HasPiece(children[i].cmd[t], "-s WASM=0 ")
        /\ \A i \in DOMAIN children :
              children[i].step = "config" =>
                  /\ TokensWith(children[i].cmd, "-DCMAKE_C_FLAGS='") # {}
                  /\ TokensWith(children[i].cmd, "-DCMAKE_CXX_FLAGS='") # {}
        /\ pc = "exited" => (args.emscripten_dir = None \/ args.config_only)
        /\ pc = "failed" =>
              \/ raised[1].text = "Not a directory: %s"
              \/ children # <<>> /\ Last(children).outcome # Returned(0)
              \/ ReportMade

C9_Witness ==
    /\ args.build_wasm /\ args.disable_wasm
    /\ pc = "done"
    /\ children # <<>>
    /\ children[1].step = "config"
    /\ children[1].outcome = Returned(0)

DocToggles == { <<"-DBUILD_DOCS=ON">>, <<"-DBUILD_DOCS=OFF">> }

\* C10: every assembly of the cmake command for one configuration gives the
\* same token list; it has one toolchain-file token and one documentation
\* toggle, ON iff --build_doc; the C and C++ flag tokens carry the same flag
\* string, with WASM=1 iff build_wasm, WASM=0 iff disable_wasm without
\* build_wasm, and DISABLE_EXCEPTION_CATCHING=0 iff enable_exception; and
\* the configuration is what it was before.
C10_CmakeCommand ==
    /\ args = call
    /\ \A k \in DOMAIN result :
          LET cmd == result[k]
              c == TokensWith(cmd, "-DCMAKE_C_FLAGS='")
              cxx == TokensWith(cmd, "-DCMAKE_CXX_FLAGS='")
          IN  /\ cmd = result[1]
              /\ Cardinality(TokensWith(cmd, "-DCMAKE_TOOLCHAIN_FILE='")) = 1
              /\ Cardinality({i \in DOMAIN cmd : cmd[i] \in DocToggles}) = 1
              /\ (\E i \in DOMAIN cmd : cmd[i] = <<"-DBUILD_DOCS=ON">>)
                    <=> args.build_doc
              /\ Cardinality(c) = 1 /\ Cardinality(cxx) = 1
              /\ \A i \in c, j \in cxx :
                    /\ Inner(cmd[i]) = Inner(cmd[j])
                    /\ Occurrences(Inner(cmd[i]), "-s WASM=1 ")
                          = (IF args.build_wasm THEN 1 ELSE 0)
                    /\ Occurrences(Inner(cmd[i]), "-s WASM=0 ")
                          = (IF args.disable_wasm /\ ~args.build_wasm THEN 1 ELSE 0)
                    /\ Occurrences(Inner(cmd[i]), "-s DISABLE_EXCEPTION_CATCHING=0 ")
                          = (IF args.enable_exception THEN 1 ELSE 0)

C10_Witness ==
    /\ Len(result) = MaxAssemble
    /\ args.build_wasm /\ args.disable_wasm /\ args.enable_exception
    /\ args.build_doc
    /\ \E i \in DOMAIN result[2] :
          result[2][i] = <<"-DCMAKE_CXX_FLAGS='", "-s USE_PTHREADS=0 ",
                           "-s WASM=1 ", "-s DISABLE_EXCEPTION_CATCHING=0 ", "'">>

====
